---- MODULE Spec2Model ----
(***************************************************************************)
(* A model of nbapi.NationalBank (src/nbapi/nbapi.py): the login / token   *)
(* handshake, the account and order look-ups, and the validate-then-submit *)
(* order protocol.  The broker is the environment: every response it can   *)
(* give is drawn from a small set.                                         *)
(*                                                                         *)
(* Python strings that the code inspects character by character (upper(),  *)
(* title(), the `in` substring test) are sequences of one-character        *)
(* strings; the broker's message texts are sequences of words.  Python's   *)
(* None is the empty sequence and a present optional value x is <<x>>.     *)
(***************************************************************************)
EXTENDS Integers, Sequences, FiniteSets, TLC

VARIABLES
    \* ---- the client object (NationalBank.session, NationalBank.token)
    session,      \* self.session: None or <<[id, auth]>>
    token,        \* self.token: None or <<t>>
    \* ---- one run of __init__ / update_session / login
    spc,          \* where the run is
    caller,       \* "init" or "update_session"
    lsession,     \* login()'s local `session`
    sraised,      \* the exception the last run raised, or None
    \* ---- the broker's side of the handshake
    issued,       \* number of access tokens the broker has issued
    lastGood,     \* the token issued by the most recent successful login
    refused,      \* the current run's POST /session was refused
    tokenReq,     \* the current run has sent GET /access-token
    pre,          \* <<self.session, self.token>> when the current run began
    \* ---- one run of validate / place_market_order / place_limit_order
    opc,          \* where the run is
    call,         \* the entry point and its arguments
    req,          \* the body POSTed to /stock-orders/validation, or None
    resp,         \* the validation response, or None
    order_data,   \* what validate() returned, or None
    subm,         \* None, or <<b>>: b was POSTed to /stock-orders
    oraised,      \* the exception the run raised, or None
    result,       \* what the place_* call returned, or None
    \* ---- one run of get_account_id / get_order / get_order_status
    lk            \* the call, the broker's list and the outcome

svars == <<session, token, spc, caller, lsession, sraised, issued, lastGood,
           refused, tokenReq, pre>>
ovars == <<opc, call, req, resp, order_data, subm, oraised, result>>
vars == <<session, token, spc, caller, lsession, sraised, issued, lastGood,
          refused, tokenReq, pre, opc, call, req, resp, order_data, subm, oraised,
          result, lk>>

None == <<>>
Some(x) == <<x>>

(***************************************************************************)
(* Strings                                                                 *)
(***************************************************************************)
LowerCase == <<"a","b","c","d","e","f","g","h","i","j","k","l","m",
               "n","o","p","q","r","s","t","u","v","w","x","y","z">>
UpperCase == <<"A","B","C","D","E","F","G","H","I","J","K","L","M",
               "N","O","P","Q","R","S","T","U","V","W","X","Y","Z">>

IndexIn(c, alphabet) ==
    IF \E i \in 1..Len(alphabet) : alphabet[i] = c
    THEN CHOOSE i \in 1..Len(alphabet) : alphabet[i] = c
    ELSE 0

IsCased(c) == IndexIn(c, LowerCase) > 0 \/ IndexIn(c, UpperCase) > 0

ToUpperChar(c) ==
    IF IndexIn(c, LowerCase) > 0 THEN UpperCase[IndexIn(c, LowerCase)] ELSE c

ToLowerChar(c) ==
    IF IndexIn(c, UpperCase) > 0 THEN LowerCase[IndexIn(c, UpperCase)] ELSE c

\* str.upper()
upper(s) == [i \in 1..Len(s) |-> ToUpperChar(s[i])]

\* str.title(): a cased character is upper-cased when it starts the string or
\* follows an uncased character, and lower-cased otherwise.
title(s) ==
    [i \in 1..Len(s) |->
        IF i = 1 \/ ~IsCased(s[i - 1]) THEN ToUpperChar(s[i])
        ELSE ToLowerChar(s[i])]

\* Python's `needle in hay` on strings.
Contains(needle, hay) ==
    \E k \in 0..(Len(hay) - Len(needle)) :
        SubSeq(hay, k + 1, k + Len(needle)) = needle

\* Python's len() of a list or of a dict (its number of keys).
len(x) == Cardinality(DOMAIN x)

RECURSIVE Digits(_)
Digits(n) ==
    LET d == <<"0","1","2","3","4","5","6","7","8","9">>[(n % 10) + 1]
    IN IF n < 10 THEN <<d>> ELSE Digits(n \div 10) \o <<d>>

\* str(n) of an int
str(n) == IF n < 0 THEN <<"-">> \o Digits(-n) ELSE Digits(n)

\* All sequences over S of length at most n.
SeqUpTo(S, n) == UNION {[1..k -> S] : k \in 0..n}

(***************************************************************************)
(* get_account_id, get_order, get_order_status                             *)
(***************************************************************************)
MaxAccounts == 3
MaxOrders == 3

CashCAD == <<"C","a","s","h"," ","C","A","D">>
CashUSD == <<"C","a","s","h"," ","U","S","D">>
TfsaCAD == <<"T","f","s","a"," ","C","A","D">>
cashcad == <<"c","a","s","h"," ","c","a","d">>

\* acctTypeDesc values the broker may return.
Descriptions == {CashCAD, CashUSD, TfsaCAD, cashcad}

\* data[0].accountList as the broker may return it: account numbers are the
\* broker's, one per account.
AccountLists ==
    {[i \in 1..Len(ds) |-> [acctTypeDesc |-> ds[i], acctNo |-> str(100 + i)]] :
        ds \in SeqUpTo(Descriptions, MaxAccounts)}

CurrencyArgs == {<<"c","a","d">>, <<"U","S","D">>}
AccountTypeArgs == {<<"c","a","s","h">>, <<"T","F","S","A">>}

OrderIds == {"o1", "o2"}
OrderIdArgs == OrderIds \cup {"o9"}

\* Entries of data.orderList.
Orders ==
    [ordId : OrderIds, operation : {"BUY"}, ordQty : {10}, execQty : {0, 10},
     avgExecPrice : {5}, orderOpen : BOOLEAN]

OrderLists == SeqUpTo(Orders, MaxOrders)

AccountNotFound == "Error! Unabel to find account"
OrderNotFound == "Order not Found."

Return(v) == [ret |-> Some(v), exc |-> None]
Raise(e) == [ret |-> None, exc |-> Some(e)]

\* account_matches with `or` for `and`.
account_matches_any(item, currency_type, account_type) ==
    \/ Contains(currency_type, item.acctTypeDesc)
    \/ Contains(account_type, item.acctTypeDesc)

\* The condition of the `if` in get_account_id's loop.
account_matches(item, currency_type, account_type) ==
    /\ Contains(currency_type, item.acctTypeDesc)
    /\ Contains(account_type, item.acctTypeDesc)

\* The `for item in response` loop of get_account_id, from index i on, and
\* the raise that follows it.
RECURSIVE account_scan(_, _, _, _)
account_scan(response, i, currency_type, account_type) ==
    IF i > Len(response) THEN Raise(AccountNotFound)
    ELSE IF account_matches(response[i], currency_type, account_type)
         THEN Return(response[i].acctNo)
         ELSE account_scan(response, i + 1, currency_type, account_type)

get_account_id_result(response, currency_type, account_type) ==
    account_scan(response, 1, upper(currency_type), title(account_type))

\* The dict get_order builds from the entry it found.
return_dict(order_info) ==
    [order_id |-> order_info.ordId,
     operation |-> order_info.operation,
     order_quantity |-> order_info.ordQty,
     filled_quantity |-> order_info.execQty,
     fill_price |-> order_info.avgExecPrice,
     order_open |-> order_info.orderOpen]

\* order_scan without the break: the last matching entry wins.
RECURSIVE order_scan_last(_, _, _)
order_scan_last(response, i, order_id) ==
    IF i > Len(response) THEN <<>>
    ELSE LET rest == order_scan_last(response, i + 1, order_id)
         IN IF len(rest) # 0 THEN rest
            ELSE IF response[i].ordId = order_id THEN response[i]
            ELSE <<>>

\* The loop of get_order, from index i on: order_info after the loop ([] when
\* nothing matched, the item the loop broke on otherwise).
RECURSIVE order_scan(_, _, _)
order_scan(response, i, order_id) ==
    IF i > Len(response) THEN <<>>
    ELSE IF response[i].ordId = order_id THEN response[i]
         ELSE order_scan(response, i + 1, order_id)

get_order_result(response, order_id) ==
    LET order_info == order_scan(response, 1, order_id)
    IN IF len(order_info) = 0 THEN Raise(OrderNotFound)
       ELSE Return(return_dict(order_info))

\* The loop of get_order_status, from index i on, and the raise after it.
RECURSIVE status_scan(_, _, _)
status_scan(response, i, order_id) ==
    IF i > Len(response) THEN Raise(OrderNotFound)
    ELSE IF response[i].ordId = order_id THEN Return(response[i].orderOpen)
         ELSE status_scan(response, i + 1, order_id)

get_order_status_result(response, order_id) == status_scan(response, 1, order_id)

LkIdle ==
    [op |-> "none", currency_type |-> None, account_type |-> None,
     order_id |-> "", response |-> <<>>, out |-> [ret |-> None, exc |-> None]]

\* get_account_id(currency_type, account_type), the broker answering
\* GET /portfolios with one of AccountLists.
get_account_id ==
    /\ lk.op = "none"
    /\ \E currency_type \in CurrencyArgs, account_type \in AccountTypeArgs,
          response \in AccountLists :
          lk' = [LkIdle EXCEPT !.op = "get_account_id",
                               !.currency_type = currency_type,
                               !.account_type = account_type,
                               !.response = response,
                               !.out = get_account_id_result(response, currency_type,
                                                             account_type)]
    /\ UNCHANGED <<svars, ovars>>

\* get_order(account_id, order_id), the broker answering GET /orders with
\* one of OrderLists.
get_order ==
    /\ lk.op = "none"
    /\ \E order_id \in OrderIdArgs, response \in OrderLists :
          lk' = [LkIdle EXCEPT !.op = "get_order",
                               !.order_id = order_id,
                               !.response = response,
                               !.out = get_order_result(response, order_id)]
    /\ UNCHANGED <<svars, ovars>>

\* get_order_status(account_id, order_id), likewise.
get_order_status ==
    /\ lk.op = "none"
    /\ \E order_id \in OrderIdArgs, response \in OrderLists :
          lk' = [LkIdle EXCEPT !.op = "get_order_status",
                               !.order_id = order_id,
                               !.response = response,
                               !.out = get_order_status_result(response, order_id)]
    /\ UNCHANGED <<svars, ovars>>

\* The call has returned or raised; the caller goes on to its next call.
lookup_return ==
    /\ lk.op # "none"
    /\ lk' = LkIdle
    /\ UNCHANGED <<svars, ovars>>

(***************************************************************************)
(* __init__, login, update_session                                         *)
(***************************************************************************)
MaxTokens == 8

LoginFailed == "Error! Unable To Log Into National Bank Direct Brokerage."
TokenFailed == "access-token request failed"

\* What GET /access-token can do: answer with a fresh token, issue one whose
\* answer never arrives (the transport raises), or answer without a token
\* (.json()['data']['accessToken'] raises).
TokenOutcomes == {"ok", "lost", "error"}

\* cloudscraper.CloudScraper() followed by headers.update of the content type.
new_session == [ContentType |-> "application/json", Authorization |-> None]

\* f'Bearer {self.token}'
bearer(t) == <<"Bearer", t>>

\* Where a raise inside login() leaves the program: a failed __init__ leaves
\* no object behind, a failed update_session returns to the caller.
after_raise == IF caller = "init" THEN "dead" ELSE "idle"

\* NationalBank(user, passw), up to the call of login().
init ==
    /\ spc = "new"
    /\ spc' = "post"
    /\ caller' = "init"
    /\ pre' = <<session, token>>
    /\ refused' = FALSE
    /\ tokenReq' = FALSE
    /\ sraised' = None
    /\ UNCHANGED <<session, token, lsession, issued, lastGood, ovars, lk>>

\* update_session(), up to the call of login().
update_session ==
    /\ spc = "idle"
    /\ issued < MaxTokens
    /\ spc' = "post"
    /\ caller' = "update_session"
    /\ pre' = <<session, token>>
    /\ refused' = FALSE
    /\ tokenReq' = FALSE
    /\ sraised' = None
    /\ UNCHANGED <<session, token, lsession, issued, lastGood, ovars, lk>>

\* login(): the new session, POST /session and the check of response.ok.
login_post(ok) ==
    /\ spc = "post"
    /\ lsession' = Some(new_session)
    /\ IF ok
       THEN /\ spc' = "token"
            /\ UNCHANGED <<refused, sraised>>
       ELSE /\ spc' = after_raise
            /\ refused' = TRUE
            /\ sraised' = Some(LoginFailed)
    /\ UNCHANGED <<session, token, caller, issued, lastGood, tokenReq, pre,
                   ovars, lk>>

\* login(): self.token = session.get(token_url).json()['data']['accessToken']
login_token(outcome) ==
    /\ spc = "token"
    /\ tokenReq' = TRUE
    /\ issued' = IF outcome = "error" THEN issued ELSE issued + 1
    /\ IF outcome = "ok"
       THEN /\ token' = Some(issued + 1)
            /\ lastGood' = Some(issued + 1)
            /\ spc' = "header"
            /\ UNCHANGED sraised
       ELSE /\ spc' = after_raise
            /\ sraised' = Some(TokenFailed)
            /\ UNCHANGED <<token, lastGood>>
    /\ UNCHANGED <<session, caller, lsession, refused, pre, ovars, lk>>

\* login_return without the headers.update of the Authorization header.
login_return_no_header == lsession[1]

\* The session login() returns: its local session with the Authorization
\* header added.
login_return ==
    [lsession[1] EXCEPT !.Authorization = Some(bearer(token[1]))]

\* login(): session.headers.update(...); return session, and the caller's
\* self.session = self.login().
login_finish ==
    /\ spc = "header"
    /\ session' = Some(login_return)
    /\ spc' = "idle"
    /\ UNCHANGED <<token, caller, lsession, sraised, issued, lastGood, refused,
                   tokenReq, pre, ovars, lk>>

(***************************************************************************)
(* Dates: datetime values are proleptic Gregorian ordinals                 *)
(* (date.toordinal(): day 1 is 0001-01-01, a Monday).  The time of day     *)
(* that datetime.today() carries is dropped: weekday() and                 *)
(* strftime('%Y-%m-%d') do not read it and adding whole days keeps it.     *)
(***************************************************************************)
FirstToday == 738940
MaxToday == 6
MaxDays == 3

\* datetime.weekday(): Monday is 0, Saturday 5, Sunday 6.
weekday(d) == (d + 6) % 7

\* strftime('%Y-%m-%d'): the year, month and day of the month of ordinal d.
strftime(d) ==
    LET z == d + 305
        era == z \div 146097
        doe == z - era * 146097
        yoe == (doe - doe \div 1460 + doe \div 36524 - doe \div 146096) \div 365
        doy == doe - (365 * yoe + yoe \div 4 - yoe \div 100)
        mp == (5 * doy + 2) \div 153
        day == doy - (153 * mp + 2) \div 5 + 1
        month == IF mp < 10 THEN mp + 3 ELSE mp - 9
        year == yoe + era * 400 + (IF month <= 2 THEN 1 ELSE 0)
    IN <<year, month, day>>

(***************************************************************************)
(* validate, place_market_order, place_limit_order                         *)
(***************************************************************************)
MaxMsgs == 2

USD == <<"U","S","D">>
CAD == <<"C","A","D">>

SideArgs == {<<"b","u","y">>, <<"S","E","L","L">>}
SymbolArgs == {<<"a","a","p","l">>}
OrderCurrencyArgs == {<<"u","s","d">>, CAD, <<"e","u","r">>}
QtyArgs == {10}
AccountArgs == {"101"}
PhoneArgs == {"514-555-0100"}
PriceArgs == {0, 150}
DaysArgs == (0 - MaxDays)..MaxDays
Todays == FirstToday..(FirstToday + MaxToday)

Placeholder == "000-000-0000"

RepPhrase ==
    <<"your", "order", "will", "be", "processed", "by", "one", "of", "our",
      "representatives">>

\* Entries the broker may put in messageList: two that mention processing
\* by a representative and two plain warnings.
MsgRepExact == [msgId |-> "E200", message |-> RepPhrase]
MsgRepEmbedded ==
    [msgId |-> "E201",
     message |-> <<"Please", "note", "that">> \o RepPhrase \o <<"shortly.">>]
MsgWarnPrice ==
    [msgId |-> "W100", message |-> <<"limit", "price", "far", "from", "market">>]
MsgWarnContact ==
    [msgId |-> "W101",
     message |-> <<"contact", "one", "of", "our", "representatives">>]

RepMessages == {MsgRepExact, MsgRepEmbedded}
Messages == RepMessages \cup {MsgWarnPrice, MsgWarnContact}
MessageLists == SeqUpTo(Messages, MaxMsgs)

UnboundLocal == "UnboundLocalError: country"
OrderRejected == "An Error Has Occured When Attempting to process your order."
TransportFailed == "request failed"

\* country_of with a final else that picks a country.
country_of_default(currency) ==
    IF currency = USD THEN Some("USA") ELSE Some("CAN")

\* Lines 200-203: the country of a currency; unbound for any other.
country_of(currency) ==
    IF currency = USD THEN Some("USA")
    ELSE IF currency = CAD THEN Some("CAN")
    ELSE None

\* price_type with the test inverted.
price_type_inverted(limit_price) ==
    IF limit_price = None THEN "SPECIFIC" ELSE "MARKET"

\* Lines 205-208.
price_type(limit_price) == IF limit_price # None THEN "SPECIFIC" ELSE "MARKET"

\* roll_over with isoweekday()'s numbering (Saturday 6, Sunday 7).
roll_over_iso(expiry_date) ==
    LET day == weekday(expiry_date)
    IN IF day = 6 THEN expiry_date + 2
       ELSE IF day = 7 THEN expiry_date + 1
       ELSE expiry_date

\* roll_over that moves a Saturday by one day only.
roll_over_short(expiry_date) ==
    LET day == weekday(expiry_date)
    IN IF day = 5 \/ day = 6 THEN expiry_date + 1 ELSE expiry_date

\* Lines 216-221: the weekend roll-over of the target date.
roll_over(expiry_date) ==
    LET day == weekday(expiry_date)
    IN IF day = 5 THEN expiry_date + 2
       ELSE IF day = 6 THEN expiry_date + 1
       ELSE expiry_date

\* Lines 210-223: <<expiry, expiry_date>>.
expiry_of(today, days_till_expiration) ==
    IF days_till_expiration = 0 THEN <<"DAY", None>>
    ELSE <<"DATE", strftime(roll_over(today + days_till_expiration))>>

\* Lines 227-250: validation_data; reading the unbound `country` raises.
validation_data(c) ==
    LET currency == upper(c.currency)
        country == country_of(currency)
        exp == expiry_of(c.today, c.days_till_expiration)
    IN IF country = None THEN Raise(UnboundLocal)
       ELSE Return(
         [stockOrder |->
            [ordId |-> None,
             acctNo |-> c.account_id,
             operation |-> upper(c.side),
             ordQty |-> str(c.qty),
             expiry |-> exp[1],
             expiryDt |-> exp[2],
             restriction |-> "NONE",
             phone |-> Placeholder,
             finInstrument |->
                [marketSymbol |->
                    [symbolCd |-> upper(c.symbol),
                     symbolCurrCd |-> currency,
                     symbolCntryCd |-> country[1]],
                 finInstrumentTypeCd |-> "STOCK"],
             limitPrice |-> c.limit_price,
             priceType |-> price_type(c.limit_price),
             stopLimitPrice |-> None],
          mode |-> "INSERT"])

\* is_rejection with == for `in`.
is_rejection_exact(item) == item.message = RepPhrase

\* The condition of the `if` in the messageList loop.
is_rejection(item) == Contains(RepPhrase, item.message)

\* Lines 258-264: the messageList loop from index i on; returns warning_list
\* or raises.
RECURSIVE warning_scan(_, _, _)
warning_scan(messageList, i, warning_list) ==
    IF i > Len(messageList) THEN Return(warning_list)
    ELSE IF is_rejection(messageList[i]) THEN Raise(OrderRejected)
         ELSE warning_scan(messageList, i + 1,
                           Append(warning_list, messageList[i].msgId))

\* inject_phone that leaves the echoed phone in place.
inject_phone_dropped(stockOrder, phone) == stockOrder

\* Line 268.
inject_phone(stockOrder, phone) == [stockOrder EXCEPT !.phone = phone]

\* Lines 254-270: what validate() makes of the response.
validate_parse(response, phone) ==
    IF "messageList" \in DOMAIN response
    THEN LET w == warning_scan(response.messageList, 1, <<>>)
         IN IF w.exc # None THEN w
            ELSE Return([stockOrder |-> inject_phone(response.data.stockOrder, phone),
                         warnsNoList |-> w.ret[1]])
    ELSE Return([stockOrder |-> inject_phone(response.data.stockOrder, phone)])

\* The ids the broker may give the order structure it echoes: none, or one
\* of its own.
EchoMarks == {None, Some("V-1")}

\* The validation response of the broker to request r: the request's order
\* structure echoed with id e, and message list m when there is one.
response_of(r, e, m) ==
    LET echo == [r[1].stockOrder EXCEPT !.ordId = e]
    IN IF m = None THEN [data |-> [stockOrder |-> echo]]
       ELSE [data |-> [stockOrder |-> echo], messageList |-> m[1]]

\* The calls a caller may make.  today is datetime.today(), read only when
\* days_till_expiration is not 0.
Calls ==
    LET args == [account_id : AccountArgs, side : SideArgs, qty : QtyArgs,
                 symbol : SymbolArgs, currency : OrderCurrencyArgs,
                 phone : PhoneArgs]
        with(a, e, l, d, t) ==
            [entry |-> e, account_id |-> a.account_id, side |-> a.side,
             qty |-> a.qty, symbol |-> a.symbol, currency |-> a.currency,
             phone |-> a.phone, limit_price |-> l, days_till_expiration |-> d,
             today |-> t]
        dated == {<<d, t>> : d \in DaysArgs \ {0}, t \in Todays} \cup {<<0, 0>>}
    IN {with(a, "validate", l, dt[1], dt[2]) :
            a \in args, l \in {None} \cup {Some(x) : x \in PriceArgs}, dt \in dated}
       \cup {with(a, "place_market_order", None, 0, 0) : a \in args}
       \cup {with(a, "place_limit_order", Some(x), dt[1], dt[2]) :
            a \in args, x \in PriceArgs, dt \in dated}

Finished == {"returned", "done", "raised"}

\* validate() up to and including the POST to /stock-orders/validation,
\* entered directly or through place_market_order / place_limit_order.
validate_request ==
    /\ opc = "idle"
    /\ \E c \in Calls :
        /\ call' = c
        /\ LET v == validation_data(c)
           IN IF v.exc # None
              THEN /\ opc' = "raised"
                   /\ oraised' = Some(<<"validate", v.exc[1]>>)
                   /\ req' = None
              ELSE /\ opc' = "validating"
                   /\ oraised' = None
                   /\ req' = v.ret
    /\ UNCHANGED <<resp, order_data, subm, result, svars, lk>>

\* The validation POST raises or does not answer with JSON.
validate_failure ==
    /\ opc = "validating"
    /\ opc' = "raised"
    /\ oraised' = Some(<<"validate", TransportFailed>>)
    /\ UNCHANGED <<call, req, resp, order_data, subm, result, svars, lk>>

\* The broker answers the validation POST; validate() parses the answer and
\* returns to its caller or raises.
validate_response ==
    /\ opc = "validating"
    /\ \E e \in EchoMarks, m \in {None} \cup {Some(l) : l \in MessageLists} :
        LET response == response_of(req, e, m)
            r == validate_parse(response, call.phone)
        IN /\ resp' = Some(response)
           /\ IF r.exc # None
              THEN /\ opc' = "raised"
                   /\ oraised' = Some(<<"validate", r.exc[1]>>)
                   /\ UNCHANGED order_data
              ELSE /\ opc' = IF call.entry = "validate" THEN "returned"
                             ELSE "validated"
                   /\ order_data' = r.ret
                   /\ UNCHANGED oraised
    /\ UNCHANGED <<call, req, subm, result, svars, lk>>

\* may_submit when an exception of validate() is swallowed.
may_submit_unchecked == opc \in {"validated", "raised"} /\ subm = None

\* Where place_market_order / place_limit_order go on after validate().
may_submit == opc = "validated"

\* place_*: session.post(url=order_url, json=order_data)
place_submit ==
    /\ may_submit
    /\ subm' = Some(order_data)
    /\ opc' = "submitted"
    /\ UNCHANGED <<call, req, resp, order_data, oraised, result, svars, lk>>

\* place_*: the broker's answer to the submission, and the return value.
place_response(ok) ==
    /\ opc = "submitted"
    /\ IF ok
       THEN /\ opc' = "done"
            /\ result' = Some([order_id |-> "S-1"])
            /\ UNCHANGED oraised
       ELSE /\ opc' = "raised"
            /\ oraised' = Some(<<"submit", TransportFailed>>)
            /\ UNCHANGED result
    /\ UNCHANGED <<call, req, resp, order_data, subm, svars, lk>>

\* The call has returned or raised; the caller goes on to its next call.
order_return ==
    /\ opc \in Finished
    /\ opc' = "idle"
    /\ call' = None
    /\ req' = None
    /\ resp' = None
    /\ order_data' = None
    /\ subm' = None
    /\ oraised' = None
    /\ result' = None
    /\ UNCHANGED <<svars, lk>>

(***************************************************************************)
(* Specifications                                                          *)
(***************************************************************************)
SessionIdle ==
    /\ session = None /\ token = None /\ spc = "new" /\ caller = "init"
    /\ lsession = None /\ sraised = None /\ issued = 0 /\ lastGood = None
    /\ refused = FALSE /\ tokenReq = FALSE /\ pre = <<None, None>>

OrderIdle ==
    /\ opc = "idle" /\ call = None /\ req = None /\ resp = None
    /\ order_data = None /\ subm = None /\ oraised = None /\ result = None

Init == SessionIdle /\ OrderIdle /\ lk = LkIdle

\* The session: construction, then any number of update_session() calls.
SessionNext ==
    \/ init
    \/ update_session
    \/ \E ok \in BOOLEAN : login_post(ok)
    \/ \E outcome \in TokenOutcomes : login_token(outcome)
    \/ login_finish

SessionSpec == Init /\ [][SessionNext]_vars

\* Orders: any sequence of validate / place_market_order / place_limit_order.
OrderNext ==
    \/ validate_request
    \/ validate_failure
    \/ validate_response
    \/ place_submit
    \/ \E ok \in BOOLEAN : place_response(ok)
    \/ order_return

OrderSpec == Init /\ [][OrderNext]_vars

\* Look-ups: any sequence of get_account_id / get_order / get_order_status.
LookupNext ==
    \/ get_account_id
    \/ get_order
    \/ get_order_status
    \/ lookup_return

LookupSpec == Init /\ [][LookupNext]_vars

(***************************************************************************)
(* Properties                                                              *)
(***************************************************************************)
\* The ordinal of the date <<year, month, day>>: the inverse of strftime.
to_ordinal(ymd) ==
    LET y == ymd[1] - (IF ymd[2] <= 2 THEN 1 ELSE 0)
        era == y \div 400
        yoe == y - era * 400
        mp == (ymd[2] + 9) % 12
        doy == (153 * mp + 2) \div 5 + ymd[3] - 1
        doe == yoe * 365 + yoe \div 4 - yoe \div 100 + doy
    IN era * 146097 + doe - 305

\* The order of the validation request that was sent.
SentOrder == req[1].stockOrder

\* A run of validate() is under way or over.
InCall == opc # "idle"

ValidateRaised == oraised # None /\ oraised[1][1] = "validate"

\* C1: a body is POSTed to /stock-orders only by place_market_order or
\* place_limit_order, only after validate() has returned a payload in the
\* same call, for a validation request built from that call's account, side,
\* quantity, symbol, currency and limit price; when validate() raised, no
\* body has been POSTed.
C1_SubmitOnlyAfterValidation ==
    /\ subm # None =>
        /\ call.entry \in {"place_market_order", "place_limit_order"}
        /\ order_data # None
        /\ subm[1] = order_data
        /\ req # None
        /\ resp # None
        /\ ~ValidateRaised
        /\ SentOrder.acctNo = call.account_id
        /\ SentOrder.operation = upper(call.side)
        /\ SentOrder.ordQty = str(call.qty)
        /\ SentOrder.finInstrument.marketSymbol.symbolCd = upper(call.symbol)
        /\ SentOrder.finInstrument.marketSymbol.symbolCurrCd = upper(call.currency)
        /\ SentOrder.limitPrice = call.limit_price
    /\ (InCall /\ ValidateRaised) => subm = None

\* A limit order was submitted after a validation that carried warnings.
C1_Witness ==
    /\ opc = "done"
    /\ call.entry = "place_limit_order"
    /\ subm # None
    /\ "messageList" \in DOMAIN resp[1]
    /\ Len(resp[1].messageList) = 2

\* C2: the validation request has expiry DATE exactly when
\* days_till_expiration is not 0; its expiry date is then a date that is
\* neither a Saturday nor a Sunday; with expiry DAY it carries no date.
C2_ExpiryNeverWeekend ==
    req # None =>
        /\ SentOrder.expiry = (IF call.days_till_expiration = 0 THEN "DAY" ELSE "DATE")
        /\ SentOrder.expiry = "DAY" => SentOrder.expiryDt = None
        /\ SentOrder.expiry = "DATE" =>
            /\ SentOrder.expiryDt # None
            /\ strftime(to_ordinal(SentOrder.expiryDt)) = SentOrder.expiryDt
            /\ weekday(to_ordinal(SentOrder.expiryDt)) \notin {5, 6}

\* A negative offset whose target is a Sunday.
C2_Witness ==
    /\ req # None
    /\ call.days_till_expiration < 0
    /\ weekday(call.today + call.days_till_expiration) = 6
    /\ SentOrder.expiry = "DATE"

\* C3: for days_till_expiration > 0 and target = today + days_till_expiration,
\* the expiry date sent is target + 2 for a Saturday, target + 1 for a Sunday
\* and target otherwise.
C3_RollOver ==
    (req # None /\ call.days_till_expiration > 0) =>
        LET target == call.today + call.days_till_expiration
            sent == to_ordinal(SentOrder.expiryDt)
        IN /\ weekday(target) = 5 => sent = target + 2
           /\ weekday(target) = 6 => sent = target + 1
           /\ weekday(target) \notin {5, 6} => sent = target

\* Saturday 2024-03-02 is sent as Monday 2024-03-04.
C3_Witness ==
    /\ req # None
    /\ call.days_till_expiration > 0
    /\ strftime(call.today + call.days_till_expiration) = <<2024, 3, 2>>
    /\ SentOrder.expiryDt = <<2024, 3, 4>>

\* The first index of response whose description holds both the upper-cased
\* currency and the title-cased account type, 0 when there is none.
FirstAccount(response, currency_type, account_type) ==
    LET hits == {i \in 1..Len(response) :
                    /\ Contains(upper(currency_type), response[i].acctTypeDesc)
                    /\ Contains(title(account_type), response[i].acctTypeDesc)}
    IN IF hits = {} THEN 0 ELSE CHOOSE i \in hits : \A j \in hits : i <= j

\* C4: get_account_id returns the account number of the first account, in
\* list order, whose description contains the upper-cased currency and the
\* title-cased account type, and raises account-not-found, returning
\* nothing, when no account of the list matches both.
C4_FirstMatchingAccount ==
    lk.op = "get_account_id" =>
        LET f == FirstAccount(lk.response, lk.currency_type, lk.account_type)
        IN IF f = 0
           THEN lk.out = [ret |-> None, exc |-> Some(AccountNotFound)]
           ELSE lk.out = [ret |-> Some(lk.response[f].acctNo), exc |-> None]

\* get_account_id('cad', 'cash') on [Cash USD, Cash CAD, Cash CAD] returned
\* the second account.
C4_Witness ==
    /\ lk.op = "get_account_id"
    /\ lk.currency_type = <<"c","a","d">>
    /\ lk.account_type = <<"c","a","s","h">>
    /\ Len(lk.response) = 3
    /\ lk.response[1].acctTypeDesc = CashUSD
    /\ lk.response[2].acctTypeDesc = CashCAD
    /\ lk.response[3].acctTypeDesc = CashCAD
    /\ lk.out.ret = Some(lk.response[2].acctNo)

\* C5 as stated: with no limit price the request has price type MARKET and
\* expiry DAY; with a limit price it has price type SPECIFIC.
C5_Original ==
    req # None =>
        /\ call.limit_price = None =>
            (SentOrder.priceType = "MARKET" /\ SentOrder.expiry = "DAY")
        /\ call.limit_price # None => SentOrder.priceType = "SPECIFIC"

\* C5 amended: with no limit price the request has price type MARKET, and
\* expiry DAY exactly when days_till_expiration is 0 (as it always is through
\* place_market_order), DATE otherwise; with a limit price it has price type
\* SPECIFIC.
C5_PriceTypeAndExpiry ==
    req # None =>
        /\ call.limit_price = None =>
            /\ SentOrder.priceType = "MARKET"
            /\ SentOrder.expiry = "DAY" <=> call.days_till_expiration = 0
        /\ call.entry = "place_market_order" =>
            (SentOrder.priceType = "MARKET" /\ SentOrder.expiry = "DAY")
        /\ call.limit_price # None => SentOrder.priceType = "SPECIFIC"

\* validate() with no limit price and a nonzero days_till_expiration.
C5_Witness ==
    /\ req # None
    /\ call.entry = "validate"
    /\ call.limit_price = None
    /\ call.days_till_expiration # 0
    /\ SentOrder.priceType = "MARKET"
    /\ SentOrder.expiry = "DATE"

\* The validation response holds a message about processing by a
\* representative.
HasRepMessage ==
    /\ resp # None
    /\ "messageList" \in DOMAIN resp[1]
    /\ \E i \in 1..Len(resp[1].messageList) : resp[1].messageList[i] \in RepMessages

\* C6: when the validation response's message list holds a message about
\* processing by a representative, at any index and among any other
\* messages, validate() raises order-rejected and returns no payload (and so
\* nothing is submitted).
C6_RepresentativeRejects ==
    HasRepMessage =>
        /\ opc = "raised"
        /\ oraised = Some(<<"validate", OrderRejected>>)
        /\ order_data = None
        /\ subm = None

\* A warning first, then the representative message inside a longer text.
C6_Witness ==
    /\ HasRepMessage
    /\ Len(resp[1].messageList) = 2
    /\ resp[1].messageList[1] = MsgWarnContact
    /\ resp[1].messageList[2] = MsgRepEmbedded
    /\ opc = "raised"

\* The first index of response whose ordId is order_id, 0 when there is none.
FirstOrder(response, order_id) ==
    LET hits == {i \in 1..Len(response) : response[i].ordId = order_id}
    IN IF hits = {} THEN 0 ELSE CHOOSE i \in hits : \A j \in hits : i <= j

\* C7: get_order and get_order_status raise order-not-found when no entry of
\* the order list (an empty list included) has the id asked for; otherwise
\* they report the fields of the first entry, in list order, that has it.
C7_OrderLookup ==
    lk.op \in {"get_order", "get_order_status"} =>
        LET f == FirstOrder(lk.response, lk.order_id)
            o == lk.response[f]
        IN IF f = 0
           THEN lk.out = [ret |-> None, exc |-> Some(OrderNotFound)]
           ELSE /\ lk.out.exc = None
                /\ lk.op = "get_order_status" => lk.out.ret = Some(o.orderOpen)
                /\ lk.op = "get_order" =>
                    /\ lk.out.ret # None
                    /\ lk.out.ret[1].order_id = o.ordId
                    /\ lk.out.ret[1].operation = o.operation
                    /\ lk.out.ret[1].order_quantity = o.ordQty
                    /\ lk.out.ret[1].filled_quantity = o.execQty
                    /\ lk.out.ret[1].fill_price = o.avgExecPrice
                    /\ lk.out.ret[1].order_open = o.orderOpen

\* get_order('o1') on a list whose second and third entries are both o1, one
\* open and one closed, reported the second.
C7_Witness ==
    /\ lk.op = "get_order"
    /\ lk.order_id = "o1"
    /\ Len(lk.response) = 3
    /\ lk.response[1].ordId = "o2"
    /\ lk.response[2].ordId = "o1"
    /\ lk.response[3].ordId = "o1"
    /\ lk.response[2].orderOpen # lk.response[3].orderOpen
    /\ lk.out.ret # None
    /\ lk.out.ret[1].order_open = lk.response[2].orderOpen

\* C8: the body POSTed to /stock-orders has the order structure of the
\* validation response with phone set to the caller's phone number and every
\* other field as echoed, and the msgId of every message, in order, as
\* warnsNoList when the response had a messageList; it has nothing else.
C8_SubmittedBody ==
    subm # None =>
        LET body == subm[1][1]
            echo == resp[1].data.stockOrder
        IN /\ DOMAIN body.stockOrder = DOMAIN echo
           /\ \A k \in DOMAIN echo \ {"phone"} : body.stockOrder[k] = echo[k]
           /\ body.stockOrder.phone = call.phone
           /\ IF "messageList" \in DOMAIN resp[1]
              THEN /\ DOMAIN body = {"stockOrder", "warnsNoList"}
                   /\ body.warnsNoList =
                        [i \in 1..Len(resp[1].messageList) |->
                            resp[1].messageList[i].msgId]
              ELSE DOMAIN body = {"stockOrder"}

\* A submission after a response that changed the order's id and carried two
\* warnings.
C8_Witness ==
    /\ subm # None
    /\ resp[1].data.stockOrder.ordId # SentOrder.ordId
    /\ resp[1].data.stockOrder.phone = Placeholder
    /\ "warnsNoList" \in DOMAIN subm[1][1]
    /\ subm[1][1].warnsNoList = <<"W100", "W101">>

OtherCurrency == InCall /\ upper(call.currency) \notin {USD, CAD}

\* C9 as stated: for a currency other than USD or CAD validate() raises
\* nothing at the country mapping and sends the validation request.
C9_Original ==
    OtherCurrency => (req # None /\ oraised # Some(<<"validate", UnboundLocal>>))

\* C9 amended: for a currency other than USD or CAD validate() raises when it
\* reads the country it never assigned; no validation request is sent and
\* nothing is submitted.
C9_OtherCurrencyRaises ==
    OtherCurrency =>
        /\ opc = "raised"
        /\ oraised = Some(<<"validate", UnboundLocal>>)
        /\ req = None
        /\ order_data = None
        /\ subm = None

\* place_market_order with currency 'eur'.
C9_Witness ==
    /\ OtherCurrency
    /\ call.entry = "place_market_order"
    /\ call.currency = <<"e","u","r">>
    /\ opc = "raised"

\* C10: whenever the constructed client is between calls, the stored token
\* is the bearer token of the stored session's Authorization header and is
\* the token of the most recent successful login; a call that raised left
\* the stored session and token as they were when it began; and a call
\* whose login was refused has sent no token request.
C10_SessionTokenAgree ==
    /\ spc = "idle" =>
        /\ session # None
        /\ token # None
        /\ session[1].Authorization = Some(<<"Bearer", token[1]>>)
        /\ token = lastGood
    /\ (spc = "idle" /\ sraised # None) => <<session, token>> = pre
    /\ refused => ~tokenReq

\* After two successful logins and a lost token answer, an update_session()
\* whose login was refused.
C10_Witness ==
    /\ spc = "idle"
    /\ caller = "update_session"
    /\ sraised = Some(LoginFailed)
    /\ token = Some(2)
    /\ issued = 3

====
